---- MODULE Spec2Model ----
(***************************************************************************)
(* Model of the DailyTaskTick component (src/src/App.js): the React state  *)
(* of every open page (tab), the three localStorage entries they share,    *)
(* and the clock.  Strings are sequences of one-character strings, so that *)
(* trim, padStart, toString and the JSON round trip are computed.          *)
(* Array.prototype.filter is SelectSeq, Array.prototype.some is \E.         *)
(***************************************************************************)
EXTENDS Integers, Sequences, FiniteSets

(* ------------------------------ bounds --------------------------------- *)
\* the clock runs from 0 to MaxNow milliseconds
MaxNow == 2
\* milliseconds per local calendar day (scaled down)
MsPerDay == 2
\* the add form is not submitted once the list holds MaxTasks tasks
MaxTasks == 2
\* with two pages open, the add form is not used once the list holds
\* MaxSharedTasks tasks
MaxSharedTasks == 1

\* the pages that can be open against the same localStorage
Tabs == {1, 2}
\* what the user can type into the add form, and into the edit input
NewTitleInputs == { <<" ">>, <<" ", "a">> }
EditTitleInputs == { <<" ">>, <<"b", " ">> }

(* ------------------------- values and strings -------------------------- *)
\* null (getItem of an absent key, useState(null)) and a present value
Null == <<>>
Some(v) == <<v>>

RECURSIVE TrimStart(_)
TrimStart(str) ==
    IF str = <<>> THEN str
    ELSE IF Head(str) = " " THEN TrimStart(Tail(str)) ELSE str

RECURSIVE TrimEnd(_)
TrimEnd(str) ==
    IF str = <<>> THEN str
    ELSE IF str[Len(str)] = " " THEN TrimEnd(SubSeq(str, 1, Len(str) - 1)) ELSE str

trim_nothing(str) == str

\* String.prototype.trim
trim(str) == TrimEnd(TrimStart(str))

DigitChars == <<"0", "1", "2", "3", "4", "5", "6", "7", "8", "9">>

\* Number.prototype.toString / String(n) for n >= 0: the decimal digits
RECURSIVE toString(_)
toString(n) ==
    IF n < 10 THEN <<DigitChars[n + 1]>>
    ELSE toString(n \div 10) \o <<DigitChars[(n % 10) + 1]>>

\* String.prototype.padStart with a one-character filler
RECURSIVE padStart(_, _, _)
padStart(str, targetLength, fill) ==
    IF Len(str) >= targetLength THEN str
    ELSE padStart(<<fill>> \o str, targetLength, fill)

\* the local calendar of the instant t; the modelled days lie in one month
getFullYear(t) == 1970
getMonth(t) == 0
getDate(t) == 1 + (t \div MsPerDay)

todayLocalISO(t) ==
    LET y == toString(getFullYear(t))
        m == padStart(toString(getMonth(t) + 1), 2, "0")
        day == padStart(toString(getDate(t)), 2, "0")
    IN  y \o <<"-">> \o m \o <<"-">> \o day

\* Date.prototype.toISOString: the instant as text
toISOString(t) == toString(t) \o <<"Z">>

(* -------------------------------- JSON --------------------------------- *)
\* property order of the two object shapes
TaskKeys == <<"id", "title", "createdAt", "archived">>
CompletionKeys == <<"taskId", "date">>

\* JSON.stringify of an array of objects: per object its members in order
JSONstringify(arr, keys) ==
    [i \in 1..Len(arr) |-> [k \in 1..Len(keys) |-> <<keys[k], arr[i][keys[k]]>>]]

\* JSON.parse of such a text: per object a record of its members
JSONparse(text) ==
    [i \in 1..Len(text) |->
        [name \in {text[i][k][1] : k \in 1..Len(text[i])} |->
            text[i][CHOOSE k \in 1..Len(text[i]) : text[i][k][1] = name][2]]]

(* ------------------------------- state --------------------------------- *)
VARIABLES
    now,                  \* the clock, in milliseconds
    localStorage,         \* dailyTaskTick_tasks, _completions, _lastCompletionDate
    phase,                \* per tab: "closed", "mounting" (updates queued), "ready"
    tasks,                \* per tab: useState tasks
    completions,          \* per tab: useState completions
    newTaskTitle,         \* per tab: useState newTaskTitle
    editingTaskId,        \* per tab: useState editingTaskId
    editingTaskTitle,     \* per tab: useState editingTaskTitle
    currentLocalISODate,  \* per tab: useRef(todayLocalISO())
    queued,               \* per tab: setTasks / setCompletions queued by the load effect
    replaced,             \* per tab, while mounting: the session and the store this load found
    focused,              \* per tab: the edit input has the keyboard focus
    pressed,              \* per tab: the edit button the pointer is pressed on, its click pending
    lastMutation          \* the tab whose handler last changed its tasks, its completions

\* what the component's code reads and writes
component == <<now, localStorage, phase, tasks, completions, newTaskTitle,
               editingTaskId, editingTaskTitle, currentLocalISODate, queued, replaced>>

vars == <<component, focused, pressed, lastMutation>>

react == <<tasks, completions, newTaskTitle, editingTaskId, editingTaskTitle>>

NoQueue == [tasks |-> Null, completions |-> Null]
NoSession == <<>>

Init ==
    /\ now = 0
    /\ localStorage = [tasks |-> Null, completions |-> Null, lastCompletionDate |-> Null]
    /\ phase = [s \in Tabs |-> "closed"]
    /\ tasks = [s \in Tabs |-> <<>>]
    /\ completions = [s \in Tabs |-> <<>>]
    /\ newTaskTitle = [s \in Tabs |-> <<>>]
    /\ editingTaskId = [s \in Tabs |-> Null]
    /\ editingTaskTitle = [s \in Tabs |-> <<>>]
    /\ currentLocalISODate = [s \in Tabs |-> <<>>]
    /\ queued = [s \in Tabs |-> NoQueue]
    /\ replaced = [s \in Tabs |-> NoSession]
    /\ focused = [s \in Tabs |-> FALSE]
    /\ pressed = [s \in Tabs |-> Null]
    /\ lastMutation = [tasks |-> 0, completions |-> 0]

(* --------------------------- persistence ------------------------------- *)
\* the save effect that leaves the store alone when the list is empty
saveTasks_skipsEmpty(ls, t) ==
    IF t = <<>> THEN ls ELSE [ls EXCEPT !.tasks = Some(JSONstringify(t, TaskKeys))]

\* the save effects
saveTasks(ls, t) == [ls EXCEPT !.tasks = Some(JSONstringify(t, TaskKeys))]
saveCompletions(ls, c) == [ls EXCEPT !.completions = Some(JSONstringify(c, CompletionKeys))]

\* the load effect with the stored completions never restored
loadEffect_neverRestores(ls, today) ==
    [ls |-> [ls EXCEPT !.completions = Some(JSONstringify(<<>>, CompletionKeys)),
                       !.lastCompletionDate = Some(today)],
     tasks |-> IF ls.tasks # Null THEN Some(JSONparse(ls.tasks[1])) ELSE Null,
     completions |-> Some(<<>>)]

\* the load effect with the stored completions restored whatever their date
loadEffect_ignoresDate(ls, today) ==
    LET found == ls.completions # Null
        ls1 == IF found THEN ls
               ELSE [ls EXCEPT !.completions = Some(JSONstringify(<<>>, CompletionKeys))]
    IN  [ls |-> [ls1 EXCEPT !.lastCompletionDate = Some(today)],
         tasks |-> IF ls.tasks # Null THEN Some(JSONparse(ls.tasks[1])) ELSE Null,
         completions |-> IF found THEN Some(JSONparse(ls.completions[1])) ELSE Some(<<>>)]

\* the load effect with the date not persisted
loadEffect_keepsDate(ls, today) ==
    LET sameDay == ls.lastCompletionDate = Some(today) /\ ls.completions # Null
    IN  [ls |-> IF sameDay THEN ls
                ELSE [ls EXCEPT !.completions = Some(JSONstringify(<<>>, CompletionKeys))],
         tasks |-> IF ls.tasks # Null THEN Some(JSONparse(ls.tasks[1])) ELSE Null,
         completions |-> IF sameDay THEN Some(JSONparse(ls.completions[1]))
                         ELSE Some(<<>>)]

\* the load effect: the store it leaves and the state updates it queues
loadEffect(ls, today) ==
    LET storedTasks == ls.tasks
        storedCompletions == ls.completions
        lastCompletionDate == ls.lastCompletionDate
        sameDay == lastCompletionDate = Some(today) /\ storedCompletions # Null
        ls1 == IF sameDay THEN ls
               ELSE [ls EXCEPT !.completions = Some(JSONstringify(<<>>, CompletionKeys))]
    IN  [ls |-> [ls1 EXCEPT !.lastCompletionDate = Some(today)],
         tasks |-> IF storedTasks # Null THEN Some(JSONparse(storedTasks[1])) ELSE Null,
         completions |-> IF sameDay THEN Some(JSONparse(storedCompletions[1]))
                         ELSE Some(<<>>)]

\* A page is opened or reloaded: the first render with the initial state,
\* then the three effects of the first commit in order.
Mount(s) ==
    LET today == todayLocalISO(now)
        loaded == loadEffect(localStorage, today)
    IN  /\ phase' = [phase EXCEPT ![s] = "mounting"]
        /\ tasks' = [tasks EXCEPT ![s] = <<>>]
        /\ completions' = [completions EXCEPT ![s] = <<>>]
        /\ newTaskTitle' = [newTaskTitle EXCEPT ![s] = <<>>]
        /\ editingTaskId' = [editingTaskId EXCEPT ![s] = Null]
        /\ editingTaskTitle' = [editingTaskTitle EXCEPT ![s] = <<>>]
        /\ currentLocalISODate' = [currentLocalISODate EXCEPT ![s] = today]
        /\ queued' = [queued EXCEPT ![s] = [tasks |-> loaded.tasks,
                                            completions |-> loaded.completions]]
        /\ localStorage' = saveCompletions(saveTasks(loaded.ls, <<>>), <<>>)
        /\ replaced' = [replaced EXCEPT ![s] =
                           [phase |-> phase[s], tasks |-> tasks[s],
                            completions |-> completions[s],
                            date |-> currentLocalISODate[s],
                            stored |-> localStorage]]
        /\ UNCHANGED now

\* The render of the queued updates and the save effects it triggers.
Settle(s) ==
    /\ phase[s] = "mounting"
    /\ LET t == IF queued[s].tasks # Null THEN queued[s].tasks[1] ELSE tasks[s]
           c == queued[s].completions[1]
           ls1 == IF queued[s].tasks # Null THEN saveTasks(localStorage, t)
                  ELSE localStorage
       IN  /\ tasks' = [tasks EXCEPT ![s] = t]
           /\ completions' = [completions EXCEPT ![s] = c]
           /\ localStorage' = saveCompletions(ls1, c)
    /\ phase' = [phase EXCEPT ![s] = "ready"]
    /\ queued' = [queued EXCEPT ![s] = NoQueue]
    /\ replaced' = [replaced EXCEPT ![s] = NoSession]
    /\ UNCHANGED <<now, newTaskTitle, editingTaskId, editingTaskTitle, currentLocalISODate>>

\* time passes
Tick ==
    /\ now < MaxNow
    /\ now' = now + 1
    /\ UNCHANGED <<localStorage, phase, react, currentLocalISODate, queued, replaced,
                   focused, pressed, lastMutation>>

(* ------------------------------ handlers ------------------------------- *)
\* onChange of the add form's input
onChangeNewTaskTitle(s, value) ==
    /\ phase[s] = "ready"
    /\ newTaskTitle' = [newTaskTitle EXCEPT ![s] = value]
    /\ UNCHANGED <<now, localStorage, phase, tasks, completions, editingTaskId,
                   editingTaskTitle, currentLocalISODate, queued, replaced>>

\* the Task object built by handleAddTask at the instant t
newTask(title, t) ==
    [id |-> toString(t), title |-> trim(title), createdAt |-> toISOString(t),
     archived |-> FALSE]

\* submit of the add form
handleAddTask(s) ==
    /\ phase[s] = "ready"
    /\ IF trim(newTaskTitle[s]) = <<>>
       THEN UNCHANGED component
       ELSE /\ Len(tasks[s]) < MaxTasks
            /\ tasks' = [tasks EXCEPT ![s] = @ \o <<newTask(newTaskTitle[s], now)>>]
            /\ newTaskTitle' = [newTaskTitle EXCEPT ![s] = <<>>]
            /\ localStorage' = saveTasks(localStorage, tasks'[s])
            /\ UNCHANGED <<now, phase, completions, editingTaskId, editingTaskTitle,
                           currentLocalISODate, queued, replaced>>

\* completions.some(c => c.taskId === taskId && c.date === today)
isCompletedToday(comps, taskId, today) ==
    \E i \in 1..Len(comps) : comps[i].taskId = taskId /\ comps[i].date = today

toggled_alwaysAdds(comps, taskId, today) ==
    comps \o <<[taskId |-> taskId, date |-> today]>>

toggled_removesTheDay(comps, taskId, today) ==
    LET keep(c) == c.date # today
    IN  IF isCompletedToday(comps, taskId, today)
        THEN SelectSeq(comps, keep)
        ELSE comps \o <<[taskId |-> taskId, date |-> today]>>

\* the completion list handleToggleCompletion sets
toggled(comps, taskId, today) ==
    LET keep(c) == ~(c.taskId = taskId /\ c.date = today)
    IN  IF isCompletedToday(comps, taskId, today)
        THEN SelectSeq(comps, keep)
        ELSE comps \o <<[taskId |-> taskId, date |-> today]>>

\* the toggle with the date read from the clock at the click
handleToggleCompletion_liveDate(s, taskId) ==
    /\ phase[s] = "ready"
    /\ \E i \in 1..Len(tasks[s]) : tasks[s][i].id = taskId
    /\ completions' = [completions EXCEPT ![s] = toggled(@, taskId, todayLocalISO(now))]
    /\ localStorage' = saveCompletions(localStorage, completions'[s])
    /\ UNCHANGED <<now, phase, tasks, newTaskTitle, editingTaskId, editingTaskTitle,
                   currentLocalISODate, queued, replaced>>

\* change of a rendered task's checkbox
handleToggleCompletion(s, taskId) ==
    /\ phase[s] = "ready"
    /\ \E i \in 1..Len(tasks[s]) : tasks[s][i].id = taskId
    /\ completions' = [completions EXCEPT ![s] = toggled(@, taskId, currentLocalISODate[s])]
    /\ localStorage' = saveCompletions(localStorage, completions'[s])
    /\ UNCHANGED <<now, phase, tasks, newTaskTitle, editingTaskId, editingTaskTitle,
                   currentLocalISODate, queued, replaced>>

\* the lists handleDeleteTask sets
withoutTask(prev, taskId) ==
    LET keep(task) == task.id # taskId
    IN  SelectSeq(prev, keep)

withoutCompletionsOf_keepsAll(prev, taskId) == prev

withoutCompletionsOf(prev, taskId) ==
    LET keep(c) == c.taskId # taskId
    IN  SelectSeq(prev, keep)

\* window.confirm returns the user's answer to the prompt
confirm_alwaysYes(answer) == TRUE

confirm(answer) == answer

\* click on a rendered task's delete button
handleDeleteTask(s, taskId, answer) ==
    /\ phase[s] = "ready"
    /\ \E i \in 1..Len(tasks[s]) : tasks[s][i].id = taskId
    /\ IF confirm(answer)
       THEN /\ tasks' = [tasks EXCEPT ![s] = withoutTask(@, taskId)]
            /\ completions' = [completions EXCEPT ![s] = withoutCompletionsOf(@, taskId)]
            /\ localStorage' = saveCompletions(saveTasks(localStorage, tasks'[s]),
                                               completions'[s])
            /\ UNCHANGED <<now, phase, newTaskTitle, editingTaskId, editingTaskTitle,
                           currentLocalISODate, queued, replaced>>
       ELSE UNCHANGED component

\* the edit started with the buffer of the previous edit kept
handleEditTask_keepsBuffer(s, taskId, currentTitle) ==
    /\ phase[s] = "ready"
    /\ \E i \in 1..Len(tasks[s]) :
          tasks[s][i].id = taskId /\ tasks[s][i].title = currentTitle
    /\ editingTaskId[s] # Some(taskId)
    /\ editingTaskId' = [editingTaskId EXCEPT ![s] = Some(taskId)]
    /\ editingTaskTitle' = [editingTaskTitle EXCEPT ![s] =
                               IF editingTaskId[s] = Null THEN currentTitle ELSE @]
    /\ UNCHANGED <<now, localStorage, phase, tasks, completions, newTaskTitle,
                   currentLocalISODate, queued, replaced>>

\* click on the edit button of a rendered task that is not being edited
handleEditTask(s, taskId, currentTitle) ==
    /\ phase[s] = "ready"
    /\ \E i \in 1..Len(tasks[s]) :
          tasks[s][i].id = taskId /\ tasks[s][i].title = currentTitle
    /\ editingTaskId[s] # Some(taskId)
    /\ editingTaskId' = [editingTaskId EXCEPT ![s] = Some(taskId)]
    /\ editingTaskTitle' = [editingTaskTitle EXCEPT ![s] = currentTitle]
    /\ UNCHANGED <<now, localStorage, phase, tasks, completions, newTaskTitle,
                   currentLocalISODate, queued, replaced>>

\* the edit input is rendered for the tasks whose id is editingTaskId
editInputShown(s, taskId) ==
    /\ editingTaskId[s] = Some(taskId)
    /\ \E i \in 1..Len(tasks[s]) : tasks[s][i].id = taskId

\* onChange of the edit input
onChangeEditingTaskTitle(s, value) ==
    /\ phase[s] = "ready"
    /\ \E i \in 1..Len(tasks[s]) : editInputShown(s, tasks[s][i].id)
    /\ editingTaskTitle' = [editingTaskTitle EXCEPT ![s] = value]
    /\ UNCHANGED <<now, localStorage, phase, tasks, completions, newTaskTitle,
                   editingTaskId, currentLocalISODate, queued, replaced>>

\* the edited task moved to the end of the list
retitled_movesToEnd(prev, taskId, title) ==
    LET other(task) == task.id # taskId
        edited(task) == task.id = taskId
        same == SelectSeq(prev, edited)
    IN  SelectSeq(prev, other)
            \o [i \in 1..Len(same) |-> [same[i] EXCEPT !.title = trim(title)]]

\* the task list handleSaveEdit sets
retitled(prev, taskId, title) ==
    [i \in 1..Len(prev) |->
        IF prev[i].id = taskId THEN [prev[i] EXCEPT !.title = trim(title)] ELSE prev[i]]

\* blur of, or Enter in, the edit input of the task taskId
handleSaveEdit(s, taskId) ==
    /\ phase[s] = "ready"
    /\ editInputShown(s, taskId)
    /\ IF trim(editingTaskTitle[s]) = <<>>
       THEN UNCHANGED component
       ELSE /\ tasks' = [tasks EXCEPT ![s] = retitled(@, taskId, editingTaskTitle[s])]
            /\ editingTaskId' = [editingTaskId EXCEPT ![s] = Null]
            /\ editingTaskTitle' = [editingTaskTitle EXCEPT ![s] = <<>>]
            /\ localStorage' = saveTasks(localStorage, tasks'[s])
            /\ UNCHANGED <<now, phase, completions, newTaskTitle, currentLocalISODate,
                           queued, replaced>>

\* Escape in the edit input
handleCancelEdit(s) ==
    /\ phase[s] = "ready"
    /\ \E i \in 1..Len(tasks[s]) : editInputShown(s, tasks[s][i].id)
    /\ editingTaskId' = [editingTaskId EXCEPT ![s] = Null]
    /\ editingTaskTitle' = [editingTaskTitle EXCEPT ![s] = <<>>]
    /\ UNCHANGED <<now, localStorage, phase, tasks, completions, newTaskTitle,
                   currentLocalISODate, queued, replaced>>

withoutToday_keepsToday(prev, today) ==
    LET keep(c) == c.date = today
    IN  SelectSeq(prev, keep)

\* the completion list handleResetTodayCompletions sets
withoutToday(prev, today) ==
    LET keep(c) == c.date # today
    IN  SelectSeq(prev, keep)

\* the derived values of a render
countOn(comps, today) ==
    LET isToday(c) == c.date = today
    IN  Len(SelectSeq(comps, isToday))

completedTodayCount(s) == countOn(completions[s], currentLocalISODate[s])

totalTasksCount(s) == Len(tasks[s])

\* click on Reset Today, rendered while totalTasksCount > 0
handleResetTodayCompletions(s, answer) ==
    /\ phase[s] = "ready"
    /\ totalTasksCount(s) > 0
    /\ IF confirm(answer)
       THEN /\ completions' = [completions EXCEPT ![s] = withoutToday(@, currentLocalISODate[s])]
            /\ localStorage' = saveCompletions(localStorage, completions'[s])
            /\ UNCHANGED <<now, phase, tasks, newTaskTitle, editingTaskId,
                           editingTaskTitle, currentLocalISODate, queued, replaced>>
       ELSE UNCHANGED component

(* --------------------------- specification ----------------------------- *)
\* the ids of the rendered tasks of a tab
TaskIds(s) == {tasks[s][i].id : i \in 1..Len(tasks[s])}

(* --------------------------- the browser ------------------------------- *)
\* An event on a control other than the edit input: the input does not have
\* the focus (it lost it, with a blur, when the pointer went down elsewhere).
Elsewhere(s) ==
    /\ ~focused[s]
    /\ pressed[s] = Null
    /\ UNCHANGED <<focused, pressed>>

\* the tab whose handler last changed the content of a list
Track(s) ==
    lastMutation' =
        [tasks |-> IF tasks'[s] # tasks[s] THEN s ELSE lastMutation.tasks,
         completions |-> IF completions'[s] # completions[s] THEN s
                         ELSE lastMutation.completions]

\* the page is opened or reloaded
Load(s) ==
    /\ Mount(s)
    /\ focused' = [focused EXCEPT ![s] = FALSE]
    /\ pressed' = [pressed EXCEPT ![s] = Null]
    /\ UNCHANGED lastMutation

\* click on a task's edit button, directly or to end a press; the input that
\* is rendered takes the focus (autoFocus)
ClickEdit(s) ==
    /\ ~focused[s]
    /\ \E i \in 1..Len(tasks[s]) :
          /\ pressed[s] \in {Null, Some(tasks[s][i].id)}
          /\ handleEditTask(s, tasks[s][i].id, tasks[s][i].title)
    /\ focused' = [focused EXCEPT ![s] = TRUE]
    /\ pressed' = [pressed EXCEPT ![s] = Null]
    /\ UNCHANGED lastMutation

\* the user clicks into the rendered edit input
FocusEdit(s) ==
    /\ phase[s] = "ready"
    /\ ~focused[s]
    /\ pressed[s] = Null
    /\ \E taskId \in TaskIds(s) : editInputShown(s, taskId)
    /\ focused' = [focused EXCEPT ![s] = TRUE]
    /\ UNCHANGED <<component, pressed, lastMutation>>

\* typing into the focused edit input
TypeEdit(s) ==
    /\ focused[s]
    /\ \E value \in EditTitleInputs : onChangeEditingTaskTitle(s, value)
    /\ UNCHANGED <<focused, pressed, lastMutation>>

\* onBlur: the focus leaves the edit input for a control other than an edit button
Blur(s) ==
    /\ focused[s]
    /\ \E taskId \in TaskIds(s) : handleSaveEdit(s, taskId)
    /\ focused' = [focused EXCEPT ![s] = FALSE]
    /\ UNCHANGED pressed
    /\ Track(s)

\* onBlur: the pointer goes down on the edit button of another task, which
\* takes the focus from the edit input before the click arrives
PressEdit(s) ==
    /\ focused[s]
    /\ \E taskId \in TaskIds(s) : handleSaveEdit(s, taskId)
    /\ \E other \in TaskIds(s) :
          /\ editingTaskId[s] # Some(other)
          /\ pressed' = [pressed EXCEPT ![s] = Some(other)]
    /\ focused' = [focused EXCEPT ![s] = FALSE]
    /\ Track(s)

\* onKeyDown with Enter; a saved edit takes the input, and the focus, away
KeyEnter(s) ==
    /\ focused[s]
    /\ \E taskId \in TaskIds(s) : handleSaveEdit(s, taskId)
    /\ focused' = [focused EXCEPT ![s] = editingTaskId'[s] # Null]
    /\ UNCHANGED pressed
    /\ Track(s)

\* onKeyDown with Escape
KeyEscape(s) ==
    /\ focused[s]
    /\ handleCancelEdit(s)
    /\ focused' = [focused EXCEPT ![s] = FALSE]
    /\ UNCHANGED <<pressed, lastMutation>>

\* the events on the add form
FormStep(s) ==
    \/ /\ Elsewhere(s)
       /\ \E value \in NewTitleInputs : onChangeNewTaskTitle(s, value)
       /\ UNCHANGED lastMutation
    \/ Elsewhere(s) /\ handleAddTask(s) /\ Track(s)

\* the render after the load, and the events on the checkboxes and the buttons
ListStep(s) ==
    \/ Settle(s) /\ UNCHANGED <<focused, pressed, lastMutation>>
    \/ /\ Elsewhere(s)
       /\ \E taskId \in TaskIds(s) : handleToggleCompletion(s, taskId)
       /\ Track(s)
    \/ /\ Elsewhere(s)
       /\ \E taskId \in TaskIds(s), answer \in BOOLEAN : handleDeleteTask(s, taskId, answer)
       /\ Track(s)
    \/ /\ Elsewhere(s)
       /\ \E answer \in BOOLEAN : handleResetTodayCompletions(s, answer)
       /\ Track(s)

\* the events of the inline edit
EditStep(s) ==
    \/ ClickEdit(s)
    \/ FocusEdit(s)
    \/ TypeEdit(s)
    \/ Blur(s)
    \/ PressEdit(s)
    \/ KeyEnter(s)
    \/ KeyEscape(s)

\* what can happen in one page
TabStep(s) == Load(s) \/ FormStep(s) \/ ListStep(s) \/ EditStep(s)

\* one page, opened and reloaded any number of times
Next == Tick \/ TabStep(1)

Spec == Init /\ [][Next]_vars

\* a page is opened
Open(s) == phase[s] = "closed" /\ Load(s)

\* two pages opened once each against the same store; tasks are added in the
\* first page only, and the inline edits are left out
NextTwoTabs ==
    \/ Tick
    \/ Len(tasks[1]) < MaxSharedTasks /\ FormStep(1)
    \/ \E s \in Tabs : Open(s) \/ ListStep(s)

SpecTwoTabs == Init /\ [][NextTwoTabs]_vars

(* ------------------------------- claims -------------------------------- *)
Range(seq) == {seq[i] : i \in 1..Len(seq)}

\* every character is white space (the empty string included)
IsBlank(str) == \A i \in 1..Len(str) : str[i] = " "

\* the step in which tab s renders the state its load effect queued
Settles(s) == phase[s] = "mounting" /\ phase'[s] = "ready"

\* the task list a store holds
StoredTasks(ls) == IF ls.tasks = Null THEN <<>> ELSE JSONparse(ls.tasks[1])

\* C1: a session that was ready on date D and is reloaded on the same date D
\* settles with the task list and the completion list it had before the reload.
C1_SameDateReloadRoundTrip ==
    [][(/\ Settles(1)
        /\ replaced[1].phase = "ready"
        /\ replaced[1].date = currentLocalISODate'[1])
       => /\ tasks'[1] = replaced[1].tasks
          /\ completions'[1] = replaced[1].completions]_vars

\* a reload on the same date is under way, of a session with two tasks of which
\* one is completed
C1_Witness ==
    /\ phase[1] = "mounting"
    /\ replaced[1].phase = "ready"
    /\ replaced[1].date = currentLocalISODate[1]
    /\ Len(replaced[1].tasks) = 2
    /\ Len(replaced[1].completions) = 1

\* C2: a load on date D2 that finds the persisted last-completion date absent or
\* different from D2 settles with no completions, in memory and in the store, and
\* with exactly the task list the store held.
C2_DayRollover ==
    [][(/\ Settles(1)
        /\ replaced[1].stored.lastCompletionDate # Some(currentLocalISODate'[1]))
       => /\ completions'[1] = <<>>
          /\ localStorage'.completions = Some(JSONstringify(<<>>, CompletionKeys))
          /\ tasks'[1] = StoredTasks(replaced[1].stored)]_vars

\* a load is under way on a date later than the persisted one, and the store it
\* found held tasks and a completion
C2_Witness ==
    /\ phase[1] = "mounting"
    /\ replaced[1].stored.lastCompletionDate # Null
    /\ replaced[1].stored.lastCompletionDate # Some(currentLocalISODate[1])
    /\ Len(StoredTasks(replaced[1].stored)) = 2
    /\ replaced[1].stored.completions # Null
    /\ Len(replaced[1].stored.completions[1]) > 0

\* C3: every completion record refers to a task of the task list.
C3_NoDanglingCompletions ==
    \A c \in Range(completions[1]) : c.taskId \in TaskIds(1)

\* two tasks with different ids, the second completed and the first not
C3_Witness ==
    /\ phase[1] = "ready"
    /\ Len(tasks[1]) = 2
    /\ tasks[1][1].id # tasks[1][2].id
    /\ Range(completions[1]) = {[taskId |-> tasks[1][2].id, date |-> currentLocalISODate[1]]}

\* C4: the completion list holds at most one record per (taskId, date).
C4_OneRecordPerTaskAndDate ==
    \A i, j \in 1..Len(completions[1]) :
        completions[1][i] = completions[1][j] => i = j

\* two tasks, both completed today
C4_Witness ==
    /\ phase[1] = "ready"
    /\ Len(completions[1]) = 2
    /\ completions[1][1].taskId # completions[1][2].taskId

\* C5: any two entries of the task list have different ids.
C5_UniqueTaskIds ==
    \A i, j \in 1..Len(tasks[1]) : tasks[1][i].id = tasks[1][j].id => i = j

\* C6: addTask with a non-blank title adds exactly one task at the end, with the
\* trimmed title and archived = false, changes neither the existing tasks nor
\* completedTodayCount, and the new task is not completed today.
C6_AddTask ==
    [][(handleAddTask(1) /\ ~IsBlank(newTaskTitle[1]))
       => /\ Len(tasks'[1]) = totalTasksCount(1) + 1
          /\ SubSeq(tasks'[1], 1, Len(tasks[1])) = tasks[1]
          /\ countOn(completions'[1], currentLocalISODate'[1]) = completedTodayCount(1)
          /\ tasks'[1][Len(tasks'[1])].title = trim(newTaskTitle[1])
          /\ tasks'[1][Len(tasks'[1])].archived = FALSE
          /\ ~isCompletedToday(completions'[1], tasks'[1][Len(tasks'[1])].id,
                               currentLocalISODate'[1])]_vars

\* C7: addTask with an empty or whitespace-only title changes neither the lists,
\* the edit-mode state nor the store, and commitEdit with an empty or
\* whitespace-only buffer changes neither the lists nor the edit-mode state.
C7_BlankInputRejected ==
    [][/\ (handleAddTask(1) /\ IsBlank(newTaskTitle[1]))
          => UNCHANGED <<tasks, completions, editingTaskId, editingTaskTitle, localStorage>>
       /\ ((\E taskId \in TaskIds(1) : handleSaveEdit(1, taskId))
           /\ IsBlank(editingTaskTitle[1]))
          => UNCHANGED <<tasks, completions, editingTaskId, editingTaskTitle>>]_vars

\* a whitespace-only title is in the add form while a task is being edited with
\* a whitespace-only buffer
C7_Witness ==
    /\ phase[1] = "ready"
    /\ newTaskTitle[1] = <<" ">>
    /\ editingTaskTitle[1] = <<" ">>
    /\ \E taskId \in TaskIds(1) : editInputShown(1, taskId)

\* C8: toggling a task of the list twice leaves the set of completion records
\* and every task's completed-today status as they were.
C8_ToggleInvolution ==
    \A taskId \in TaskIds(1) :
        LET today == currentLocalISODate[1]
            once == toggled(completions[1], taskId, today)
            twice == toggled(once, taskId, today)
        IN  /\ isCompletedToday(once, taskId, today)
                 # isCompletedToday(completions[1], taskId, today)
            /\ Range(twice) = Range(completions[1])
            /\ \A other \in TaskIds(1) :
                  isCompletedToday(twice, other, today)
                      = isCompletedToday(completions[1], other, today)

\* two tasks with different ids, the first completed and the second not
C8_Witness ==
    /\ phase[1] = "ready"
    /\ Len(tasks[1]) = 2
    /\ tasks[1][1].id # tasks[1][2].id
    /\ isCompletedToday(completions[1], tasks[1][1].id, currentLocalISODate[1])
    /\ ~isCompletedToday(completions[1], tasks[1][2].id, currentLocalISODate[1])

\* C9: a confirmed resetTodayCompletions leaves completedTodayCount at 0, the
\* task list unchanged and every record of another date in the completion list:
\* in every state the list the reset sets has no record of the session date and
\* every record of another date, and the reset step changes no task.
C9_ResetToday ==
    /\ [](LET today == currentLocalISODate[1]
              after == withoutToday(completions[1], today)
          IN  /\ countOn(after, today) = 0
              /\ \A c \in Range(completions[1]) : c.date # today => c \in Range(after))
    /\ [][handleResetTodayCompletions(1, TRUE)
          => /\ countOn(completions'[1], currentLocalISODate'[1]) = 0
             /\ tasks'[1] = tasks[1]
             /\ \A c \in Range(completions[1]) :
                   c.date # currentLocalISODate[1] => c \in Range(completions'[1])]_vars

\* Reset Today is shown and every one of the two tasks is completed today
C9_Witness ==
    /\ phase[1] = "ready"
    /\ totalTasksCount(1) = 2
    /\ completedTodayCount(1) = 2

\* C10: deleteTask and resetTodayCompletions with the prompt declined change
\* nothing: not the lists, not the edit-mode state, not the store.
C10_DeclinedIsNoOp ==
    [][((\E taskId \in TaskIds(1) : handleDeleteTask(1, taskId, FALSE))
        \/ handleResetTodayCompletions(1, FALSE))
       => UNCHANGED <<tasks, completions, editingTaskId, editingTaskTitle, localStorage>>]_vars

\* a completed task is being edited: a delete or a reset would change the state
C10_Witness ==
    /\ phase[1] = "ready"
    /\ Len(tasks[1]) = 1
    /\ editInputShown(1, tasks[1][1].id)
    /\ completedTodayCount(1) = 1

\* C11: commitEdit with a non-blank buffer clears edit mode, leaves the
\* completion list alone and changes one entry of the task list only: the title
\* of the task with the id becomes the trimmed buffer, its other fields and its
\* position stay, and every other entry stays as it is.
C11_CommitEditFrame ==
    [][\A taskId \in TaskIds(1) :
          (handleSaveEdit(1, taskId) /\ ~IsBlank(editingTaskTitle[1]))
          => /\ editingTaskId'[1] = Null
             /\ editingTaskTitle'[1] = <<>>
             /\ completions'[1] = completions[1]
             /\ Len(tasks'[1]) = Len(tasks[1])
             /\ \E i \in 1..Len(tasks[1]) :
                   /\ tasks[1][i].id = taskId
                   /\ tasks'[1][i] =
                         [tasks[1][i] EXCEPT !.title = trim(editingTaskTitle[1])]
                   /\ \A j \in 1..Len(tasks[1]) :
                         j # i => tasks'[1][j] = tasks[1][j]]_vars

\* the completion list a store holds
StoredCompletions(ls) ==
    IF ls.completions = Null THEN <<>> ELSE JSONparse(ls.completions[1])

\* C12: whenever the page is ready the store holds the in-memory task list and
\* the in-memory completion list, and while a load is under way the store holds
\* no fewer tasks than it held before the load.
C12_WriteThrough ==
    /\ phase[1] = "ready"
       => /\ localStorage.tasks = Some(JSONstringify(tasks[1], TaskKeys))
          /\ localStorage.completions = Some(JSONstringify(completions[1], CompletionKeys))
    /\ phase[1] = "mounting"
       => Len(StoredTasks(localStorage)) >= Len(StoredTasks(replaced[1].stored))

\* C13: from the load on, the persisted last-completion date is the session
\* date of the loaded session.
C13_LastDateIsSessionDate ==
    phase[1] # "closed"
    => localStorage.lastCompletionDate = Some(currentLocalISODate[1])

\* a load has just replaced a persisted date of another day
C13_Witness ==
    /\ phase[1] = "mounting"
    /\ replaced[1].stored.lastCompletionDate # Null
    /\ replaced[1].stored.lastCompletionDate # Some(currentLocalISODate[1])
    /\ localStorage.lastCompletionDate = Some(currentLocalISODate[1])

\* C14: the session date changes only when the page loads; a toggle adds or
\* removes exactly the record of the task for that date, whatever the clock
\* says, so completedTodayCount moves by one; and a reload on another date
\* settles with no completions.
C14_SessionDateFrozen ==
    [][/\ phase'[1] # "mounting" => currentLocalISODate'[1] = currentLocalISODate[1]
       /\ \A taskId \in TaskIds(1) :
             handleToggleCompletion(1, taskId)
             => LET today == currentLocalISODate[1]
                    record == [taskId |-> taskId, date |-> today]
                IN  IF record \in Range(completions[1])
                    THEN /\ Range(completions'[1]) = Range(completions[1]) \ {record}
                         /\ countOn(completions'[1], today) = completedTodayCount(1) - 1
                    ELSE /\ Range(completions'[1]) = Range(completions[1]) \cup {record}
                         /\ countOn(completions'[1], today) = completedTodayCount(1) + 1
       /\ (Settles(1) /\ replaced[1].phase = "ready"
              /\ replaced[1].date # currentLocalISODate'[1])
          => completions'[1] = <<>>]_vars

\* the clock is on a later date than the session, and the session holds a
\* completion for one of its two tasks
C14_Witness ==
    /\ phase[1] = "ready"
    /\ todayLocalISO(now) # currentLocalISODate[1]
    /\ Len(tasks[1]) = 2
    /\ completedTodayCount(1) = 1

\* C15 as stated: when the user starts editing another task while a task is in
\* edit mode (the pointer goes down on the other edit button, or the button is
\* clicked), no task of the list changes, and the click moves edit mode to the
\* clicked task with its title as the buffer.
C15_NewEditAbandons ==
    [][/\ (editingTaskId[1] # Null /\ (PressEdit(1) \/ ClickEdit(1)))
          => tasks'[1] = tasks[1]
       /\ ClickEdit(1)
          => \E i \in 1..Len(tasks[1]) :
                /\ editingTaskId'[1] = Some(tasks[1][i].id)
                /\ editingTaskTitle'[1] = tasks[1][i].title]_vars

\* C15 as amended: at most one id is in edit mode; the click on an edit button
\* changes no task and moves edit mode to the clicked task with its title as
\* the buffer, and a buffer it discards is blank; the press on another edit
\* button while the edit input has the focus commits a non-blank buffer to the
\* edited task and ends its edit mode, and changes nothing when it is blank.
C15_NewEditCommitsOrAbandons ==
    [][/\ editingTaskId[1] = Null \/ Len(editingTaskId[1]) = 1
       /\ ClickEdit(1)
          => /\ tasks'[1] = tasks[1]
             /\ editingTaskId[1] # Null => IsBlank(editingTaskTitle[1])
             /\ \E i \in 1..Len(tasks[1]) :
                   /\ editingTaskId'[1] = Some(tasks[1][i].id)
                   /\ editingTaskTitle'[1] = tasks[1][i].title
       /\ PressEdit(1)
          => IF IsBlank(editingTaskTitle[1])
             THEN UNCHANGED <<tasks, editingTaskId, editingTaskTitle>>
             ELSE /\ editingTaskId'[1] = Null
                  /\ Len(tasks'[1]) = Len(tasks[1])
                  /\ \A i \in 1..Len(tasks[1]) :
                        /\ tasks'[1][i].id = tasks[1][i].id
                        /\ tasks'[1][i].title =
                              IF Some(tasks[1][i].id) = editingTaskId[1]
                              THEN trim(editingTaskTitle[1])
                              ELSE tasks[1][i].title]_vars

\* the pointer is down on the second task's edit button, and the blur it caused
\* has committed the typed title to the first task
C15_Witness ==
    /\ phase[1] = "ready"
    /\ Len(tasks[1]) = 2
    /\ pressed[1] = Some(tasks[1][2].id)
    /\ editingTaskId[1] = Null
    /\ tasks[1][1].title = <<"b">>
    /\ tasks[1][2].title = <<"a">>

\* the ids of a task list, in order
IdsOf(list) == [i \in 1..Len(list) |-> list[i].id]

\* left can be obtained from right by removing entries
RECURSIVE IsSubsequence(_, _)
IsSubsequence(left, right) ==
    IF left = <<>> THEN TRUE
    ELSE IF right = <<>> THEN FALSE
    ELSE IF Head(left) = Head(right) THEN IsSubsequence(Tail(left), Tail(right))
    ELSE IsSubsequence(left, Tail(right))

\* C16: addTask appends at the end; no step of a loaded page reorders tasks
\* (the ids after the step are the ids before it with entries removed, or with
\* one id appended); and a reload settles with the ids in the order they had.
C16_InsertionOrder ==
    [][/\ (handleAddTask(1) /\ ~IsBlank(newTaskTitle[1]))
          => SubSeq(tasks'[1], 1, Len(tasks[1])) = tasks[1]
       /\ (phase[1] = "ready" /\ phase'[1] = "ready")
          => \/ IsSubsequence(IdsOf(tasks'[1]), IdsOf(tasks[1]))
             \/ /\ Len(tasks'[1]) = Len(tasks[1]) + 1
                /\ SubSeq(IdsOf(tasks'[1]), 1, Len(tasks[1])) = IdsOf(tasks[1])
       /\ (Settles(1) /\ replaced[1].phase = "ready")
          => IdsOf(tasks'[1]) = IdsOf(replaced[1].tasks)]_vars

\* the first of two tasks with different ids has been retitled and is still
\* the first
C16_Witness ==
    /\ phase[1] = "ready"
    /\ Len(tasks[1]) = 2
    /\ tasks[1][1].id # tasks[1][2].id
    /\ tasks[1][1].createdAt = toISOString(0)
    /\ tasks[1][1].title = <<"b">>
    /\ tasks[1][2].title = <<"a">>
    /\ pressed[1] = Null

\* C18: completedTodayCount never exceeds totalTasksCount.
C18_CompletedAtMostTotal ==
    completedTodayCount(1) <= totalTasksCount(1)

\* two tasks that share an id, completed by one record
C18_Witness ==
    /\ phase[1] = "ready"
    /\ Len(tasks[1]) = 2
    /\ tasks[1][1].id = tasks[1][2].id
    /\ completedTodayCount(1) = 1

\* C19: with one page at a time, every completion record in memory and in the
\* store carries the session date, so completedTodayCount is the length of the
\* completion list.
C19_OnlySessionDateRecords ==
    phase[1] # "closed"
    => /\ \A c \in Range(completions[1]) \cup Range(StoredCompletions(localStorage)) :
             c.date = currentLocalISODate[1]
       /\ completedTodayCount(1) = Len(completions[1])

\* the session has outlived its date and both its tasks are completed, in
\* memory and in the store
C19_Witness ==
    /\ phase[1] = "ready"
    /\ todayLocalISO(now) # currentLocalISODate[1]
    /\ Len(completions[1]) = 2
    /\ Len(StoredCompletions(localStorage)) = 2

\* C20: the editing task id is null or the id of a task of the task list.
C20_EditingIdInList ==
    editingTaskId[1] = Null \/ editingTaskId[1][1] \in TaskIds(1)

\* tab s takes the step: the React state of every other tab stays
StepOf(s) ==
    \A other \in Tabs \ {s} :
        /\ phase'[other] = phase[other]
        /\ tasks'[other] = tasks[other]
        /\ completions'[other] = completions[other]

\* C17 as stated: with two pages open, the persisted task list is the in-memory
\* task list of the page whose handler last changed its tasks, and the persisted
\* completion list is the in-memory completion list of the page whose handler
\* last changed its completions.
C17_LastMutatorWins ==
    /\ lastMutation.tasks # 0
       => localStorage.tasks = Some(JSONstringify(tasks[lastMutation.tasks], TaskKeys))
    /\ lastMutation.completions # 0
       => localStorage.completions
             = Some(JSONstringify(completions[lastMutation.completions], CompletionKeys))

\* C17 as amended: every step that changes a page's task list (completion list),
\* a load included, leaves the store holding exactly that page's list, and the
\* persisted list changes only in a step of a page that leaves it equal to
\* that page's list: nothing of what the store held is merged in.
C17_LastWriterWins ==
    [][/\ \A s \in Tabs :
             /\ tasks'[s] # tasks[s]
                => localStorage'.tasks = Some(JSONstringify(tasks'[s], TaskKeys))
             /\ completions'[s] # completions[s]
                => localStorage'.completions
                      = Some(JSONstringify(completions'[s], CompletionKeys))
       /\ localStorage'.tasks # localStorage.tasks
          => \E s \in Tabs :
                /\ StepOf(s)
                /\ localStorage'.tasks = Some(JSONstringify(tasks'[s], TaskKeys))
       /\ localStorage'.completions # localStorage.completions
          => \E s \in Tabs :
                /\ StepOf(s)
                /\ localStorage'.completions
                      = Some(JSONstringify(completions'[s], CompletionKeys))]_vars

\* both pages are ready with different lists, and the store holds the lists of
\* the second page, whose handlers changed them last
C17_Witness ==
    /\ phase[1] = "ready"
    /\ phase[2] = "ready"
    /\ lastMutation = [tasks |-> 2, completions |-> 2]
    /\ tasks[1] # tasks[2]
    /\ completions[1] # completions[2]
    /\ completions[1] # <<>>
    /\ localStorage.tasks = Some(JSONstringify(tasks[2], TaskKeys))
    /\ localStorage.completions = Some(JSONstringify(completions[2], CompletionKeys))

====
